---- MODULE Spec2Model ----
(***************************************************************************)
(* Model of the Wix -> Luxura catalog synchronisation                      *)
(* (app/routes/wix.py, app/services/catalog_normalizer.py).                *)
(*                                                                         *)
(* The persistent store is the three tables Salon, Product and             *)
(* InventoryItem.  A sync run works in one database session: its writes    *)
(* are kept in the session's view (tx_products, tx_inventory) and reach    *)
(* the tables only at db.commit(); db.rollback() discards them.            *)
(***************************************************************************)
EXTENDS Integers, Sequences, FiniteSets, TLC

\* ------------------------------------------------------------------------
\* Bounds of the model
\* ------------------------------------------------------------------------
\* Product primary keys are handed out by a sequence; the model creates
\* products while the sequence has not passed MaxId.
MaxId == 3

\* Python's None, for string-valued fields.
None == "None"

ENTREPOT_CODE == "ENTREPOT"

\* External identities (parent id, variant id) the platform can report.
Idents == {<<"P1", "V1">>, <<"P1", "V2">>}
\* Values of the variant's "sku" field.
RawSkus == {"X", "Y"}
\* Quantities the inventory endpoint reports for a variant.
Qtys == {-1, 2}
\* The inventory record the platform holds for a variant: listed = FALSE when
\* the inventory listing has no record for it, and else a record with
\* quantity tracking enabled.
InvInfos ==
    {[listed |-> FALSE, track |-> FALSE, qty |-> 0, vendor_sku |-> None]}
    \cup [listed : {TRUE}, track : {TRUE}, qty : Qtys, vendor_sku : {None}]

\* One variant as the platform reports it, with the id of its parent.
Entries == [pid : {i[1] : i \in Idents}, vid : {i[2] : i \in Idents},
            sku : RawSkus, inv : InvInfos]

\* The catalogs a run can receive: every (parent, variant) id is listed once.
Catalogs ==
    {c \in UNION {[1..n -> Entries] : n \in 0..Cardinality(Idents)} :
        /\ \A i \in DOMAIN c : <<c[i].pid, c[i].vid>> \in Idents
        /\ \A i, j \in DOMAIN c :
              (c[i].pid = c[j].pid /\ c[i].vid = c[j].vid) => i = j}


\* The platform's records for one listed variant: the parent dict, the
\* variant dict and the variant's line of the inventory listing.
RawParent(e) == [id |-> e.pid, price |-> [k |-> "absent", n |-> 0, s |-> ""]]
RawVariant(e) ==
    [id |-> e.vid, sku |-> e.sku, variant_sku |-> None,
     stockKeepingUnit |-> None, skuData_sku |-> None,
     vendorSku |-> None, itemNumber |-> None,
     price |-> [k |-> "absent", n |-> 0, s |-> ""]]

\* ------------------------------------------------------------------------
\* catalog_normalizer.py
\* ------------------------------------------------------------------------
\* str.strip() on the strings of the model: the padded ones lose their
\* blanks, the others have none.
Strip(s) ==
    CASE s = " X" -> "X"
      [] s = "X " -> "X"
      [] s = " "  -> ""
      [] s = " P1" -> "P1"
      [] s = "V1 " -> "V1"
      [] OTHER    -> s

\* A faulty variant of Truthy: every value counts as present.
Truthy_always(s) == TRUE

\* Python truthiness of an optional string.
Truthy(s) == s # None /\ s # ""

_clean_str(value) ==
    IF value = None THEN None
    ELSE IF Strip(value) = "" THEN None ELSE Strip(value)

\* A faulty variant of _first_non_empty_str: the first value as it is.
_first_non_empty_str_head(values) ==
    IF values = <<>> THEN None ELSE Head(values)

RECURSIVE _first_non_empty_str(_)
_first_non_empty_str(values) ==
    IF values = <<>> THEN None
    ELSE IF Truthy(_clean_str(Head(values))) THEN _clean_str(Head(values))
    ELSE _first_non_empty_str(Tail(values))

\* A "sku" field that holds an object {"value": "Z"} instead of a string:
\* the string is what str() makes of the object.
SkuDict == "{'value': 'Z'}"
IsDict(v) == v = SkuDict
DictValue(v) == "Z"

\* The Python values of a price field: None, a number, a string; "absent"
\* when the payload has no such key.
PyAbsent == [k |-> "absent", n |-> 0, s |-> ""]
PyNone == [k |-> "none", n |-> 0, s |-> ""]
PyNum(n) == [k |-> "num", n |-> n, s |-> ""]
PyStr(s) == [k |-> "str", n |-> 0, s |-> s]
\* Truth value of such a value.
PyTruthy(v) == (v.k = "num" /\ v.n # 0) \/ (v.k = "str" /\ v.s # "")
\* x or 0
OrZero(v) == IF PyTruthy(v) THEN v ELSE PyNum(0)
\* float(s) for the strings of the model: "7" is a number, the others raise
\* ValueError.
FloatOfStr(s) ==
    IF s = "7" THEN [ok |-> TRUE, n |-> 7] ELSE [ok |-> FALSE, n |-> 0]

\* The draft of a variant that cannot be identified (the function's None).
NoDraft == [valid |-> FALSE]

normalize_variant(parent, variant) ==
    IF ~Truthy(parent.id) \/ ~Truthy(variant.id) THEN NoDraft
    ELSE
      LET wix_product_id_s == Strip(parent.id)
          wix_variant_id_s == Strip(variant.id)
          found == _first_non_empty_str(
                       <<variant.sku, variant.variant_sku,
                         IF IsDict(variant.sku) THEN DictValue(variant.sku)
                         ELSE None,
                         variant.stockKeepingUnit, variant.skuData_sku>>)
          sku == IF Truthy(found) THEN found
                 ELSE wix_product_id_s \o ":" \o wix_variant_id_s
          price_parent  == OrZero(IF parent.price.k = "absent" THEN PyNone
                                  ELSE parent.price)
          price_variant == OrZero(IF variant.price.k = "absent"
                                  THEN price_parent ELSE variant.price)
          price == IF OrZero(price_variant).k = "num"
                   THEN OrZero(price_variant).n
                   ELSE IF FloatOfStr(price_variant.s).ok
                        THEN FloatOfStr(price_variant.s).n
                        ELSE 0
      IN  [valid   |-> TRUE,
           wix_id  |-> wix_product_id_s,
           sku     |-> sku,
           price   |-> price,
           options |-> [wix_variant_id |-> wix_variant_id_s]]

\* ------------------------------------------------------------------------
\* Inventory map (wix.py)
\* ------------------------------------------------------------------------
InvKey(pid, vid) == pid \o ":" \o vid

\* A faulty variant of the inventory map: every listed variant is taken as
\* tracked.
_build_inventory_map_v1_tracked(c) ==
    LET listed == {i \in DOMAIN c : c[i].inv.listed}
        keys   == {InvKey(Strip(c[i].pid), Strip(c[i].vid)) : i \in listed}
    IN  [k \in keys |->
            LET i == CHOOSE j \in listed :
                        InvKey(Strip(c[j].pid), Strip(c[j].vid)) = k
            IN  [track      |-> TRUE,
                 qty        |-> c[i].inv.qty,
                 vendor_sku |-> c[i].inv.vendor_sku]]

\* inv_map of a run: "<productId>:<variantId>" -> the variant's inventory
\* record, for the variants the inventory listing holds.
_build_inventory_map_v1(c) ==
    LET listed == {i \in DOMAIN c : c[i].inv.listed}
        keys   == {InvKey(Strip(c[i].pid), Strip(c[i].vid)) : i \in listed}
    IN  [k \in keys |->
            LET i == CHOOSE j \in listed :
                        InvKey(Strip(c[j].pid), Strip(c[j].vid)) = k
            IN  [track      |-> c[i].inv.track,
                 qty        |-> c[i].inv.qty,
                 vendor_sku |-> c[i].inv.vendor_sku]]


\* ------------------------------------------------------------------------
\* State
\* ------------------------------------------------------------------------
VARIABLES
    salons,           \* table salon: id -> [code]
    products,         \* table product (committed): id -> [wix_id, sku, options]
    inventory,        \* table inventory_item (committed):
                      \*   id -> [salon_id, product_id, quantity]
    nextProductId,    \* next value of product's primary-key sequence
    pc,               \* "idle", or "running" while a sync request is served
    dry_run,          \* the caller asked for a dry run (RunSync's dryRun)
    catalog,          \* what the platform lists during the run
    idx,              \* position of the run in the catalog
    tx_products,      \* the run's session view of product
    tx_inventory,     \* the run's session view of inventory_item
    cnt,              \* the run's counters
    merged,           \* number of drift merges of the run
    last,             \* what the run did for the variant it handled last
    resolved,         \* per position of the catalog handled so far: the id
                      \* of the product the variant resolved to (0: skipped)
    mode,             \* "fresh"; "again": same catalog as the committed run
                      \* just before; "afterDry": same catalog as the dry run
                      \* just before
    prev,             \* how the previous request ended
    dry_cnt,          \* the counters the previous request returned, when it
                      \* was a dry run
    norm_call,        \* a call of normalize_variant on its own: the
                      \* arguments, and the draft once it has returned
    inv_meta,         \* inv_meta of the run: "meta" when the inventory map
                      \* was built, "error" when building it raised
    response,         \* what the caller of the last request received
    fetch,            \* a paginated fetch of the platform client: its
                      \* arguments, its local variables, what the platform
                      \* holds, and its outcome
    db_session,       \* the committed rows the running request's session
                      \* last read, and the ENTREPOT row it selected
    parked,           \* the request of another worker thread, suspended
    sync_runs,        \* table sync_runs: id -> [status, finished_at, ...]
    movement          \* the last call of record_movement and its answer

vars == <<salons, products, inventory, nextProductId, pc,
          dry_run, catalog, idx, tx_products, tx_inventory, cnt, merged,
          last, resolved, mode, prev, dry_cnt, norm_call, inv_meta,
          response, fetch, db_session, parked, sync_runs,
          movement>>

\* The empty table.
EmptyTable == [i \in {} |-> 0]

\* A faulty variant of ZeroCounters: variants_seen starts at 1.
ZeroCounters_seen_one ==
    [created |-> 0, updated |-> 0, skipped_no_sku |-> 0, inv_written |-> 0,
     parents_processed |-> 0, variants_seen |-> 1]

\* Line 306: the counters at the start of a run.
ZeroCounters ==
    [created |-> 0, updated |-> 0, skipped_no_sku |-> 0, inv_written |-> 0,
     parents_processed |-> 0, variants_seen |-> 0]

\* Nothing was done yet for a variant; also the shape of `last`.
NoLast == [kind |-> "none", via |-> "none", a |-> 0, b |-> 0, prod |-> 0,
           moved |-> {}, wrote |-> FALSE, inv_row |-> 0]

\* No request was answered yet.
NoResponse ==
    [kind |-> "none", status_code |-> 0, ok |-> "missing",
     detail |-> "missing", inventory_meta |-> "missing"]

\* The dict returned at the end of a run (lines 411-422), sent with status
\* 200: "ok": True and the inventory metadata among its keys.
Summary(meta) ==
    [kind |-> "summary", status_code |-> 200, ok |-> "True",
     detail |-> "missing", inventory_meta |-> meta]

\* raise HTTPException(status_code=500, detail=...): the caller receives
\* status 500 with the body {"detail": ...}.
HTTPException(detail) ==
    [kind |-> "HTTPException", status_code |-> 500, ok |-> "missing",
     detail |-> detail, inventory_meta |-> "missing"]

\* No call of normalize_variant outside a run.
NoCall == [called |-> FALSE, parent |-> RawParent([pid |-> None]),
           variant |-> RawVariant([vid |-> None, sku |-> None]),
           draft |-> NoDraft]

\* No paginated fetch was called yet; also the shape of `fetch`.
\*   fn, caller      the function called, and who called it ("direct", or
\*                   "sync" for the handler, then with its `limit`)
\*   per_page        page size sent to the platform
\*   bounded, max_pages   max_pages is a number (bounded), or None
\*   pages, items, cursor, offset, inv_map   the locals of the loop; the
\*                   items of a listing are distinct, so all_items and
\*                   inv_map are kept as their numbers of entries
\*   size, endless   the platform: the length of its listing, or a platform
\*                   that signals a further page on every request
\*   requests        page requests sent
\*   status          HTTP status of the last response (0: none yet)
\*   signalled       the last response signalled no further page
\*   st              "idle", "loop", "returned" or "raised"
\*   result          number of items returned (products), or of entries of
\*                   the map the caller holds after the call (inventory)
NoFetch ==
    [fn |-> "none", caller |-> "direct", limit |-> 0, per_page |-> 0,
     bounded |-> FALSE, max_pages |-> 0, pages |-> 0, items |-> 0,
     cursor |-> FALSE, offset |-> 0, inv_map |-> 0, size |-> 0,
     endless |-> FALSE, requests |-> 0, status |-> 0, signalled |-> FALSE,
     st |-> "idle", result |-> 0]

\* A session that has read nothing.
NoSession ==
    [base_products |-> EmptyTable, base_inventory |-> EmptyTable,
     entrepot |-> 0]

\* No other request is being served; also the shape of `parked`: the
\* variables of a request, as the thread serving it holds them.
NoParked ==
    [pc |-> "idle", dry_run |-> FALSE, catalog |-> <<>>, idx |-> 1,
     tx_products |-> EmptyTable, tx_inventory |-> EmptyTable,
     cnt |-> ZeroCounters, merged |-> 0, last |-> NoLast,
     resolved |-> <<>>, mode |-> "fresh", inv_meta |-> "meta",
     db_session |-> NoSession]

\* record_movement was not called yet; also the shape of `movement`: the
\* arguments of the call, and the quantity and inventory_id of its answer.
NoMovement ==
    [type |-> "none", salon_id |-> 0, product_id |-> 0, qty |-> 0,
     quantity |-> 0, inventory_id |-> 0]

\* The empty database, no request in progress.
InitStore ==
    /\ salons = EmptyTable
    /\ products = EmptyTable
    /\ inventory = EmptyTable
    /\ nextProductId = 1
    /\ pc = "idle"
    /\ dry_run = FALSE
    /\ catalog = <<>>
    /\ idx = 1
    /\ tx_products = EmptyTable
    /\ tx_inventory = EmptyTable
    /\ cnt = ZeroCounters
    /\ merged = 0
    /\ last = NoLast
    /\ resolved = <<>>
    /\ mode = "fresh"
    /\ prev = "none"
    /\ dry_cnt = ZeroCounters
    /\ inv_meta = "meta"
    /\ response = NoResponse
    /\ fetch = NoFetch
    /\ db_session = NoSession
    /\ parked = NoParked
    /\ sync_runs = EmptyTable
    /\ movement = NoMovement

Init == InitStore /\ norm_call = NoCall

\* ------------------------------------------------------------------------
\* Queries and writes of a session
\* ------------------------------------------------------------------------
\* Faulty variants of the queries and writes below; each property is also
\* run against the variant that should break it.
First_none(rows) == {0}
ByIdentity_none(ps, wix_id, wix_variant_id) == {}
BySku_none(ps, sku) == {}
ClampQty_raw(qty) == qty
Repoint_none(inv, from, to) == inv
Repoint_drop(inv, from, to) ==
    [i \in {j \in DOMAIN inv : inv[j].product_id # from} |-> inv[i]]
MergeNeeded_never(existing, sku_owner) == FALSE
MergeNeeded_same(existing, sku_owner) == existing # 0 /\ sku_owner # 0

\* The possible results of .first() on a query without ORDER BY: any of the
\* matching rows, or 0 (None) when no row matches.
First(rows) == IF rows = {} THEN {0} ELSE rows

\* select(Product).where(Product.wix_id == wix_id), then the candidates
\* whose options hold the variant id.
ByIdentity(ps, wix_id, wix_variant_id) ==
    {i \in DOMAIN ps : /\ ps[i].wix_id = wix_id
                       /\ ps[i].options.wix_variant_id = wix_variant_id}

\* select(Product).where(Product.sku == sku)
BySku(ps, sku) == {i \in DOMAIN ps : ps[i].sku = sku}

\* select(InventoryItem).where(InventoryItem.product_id == product_id)
InvOfProduct(inv, product_id) ==
    {i \in DOMAIN inv : inv[i].product_id = product_id}

\* select(InventoryItem).where(salon_id == ..., product_id == ...)
InvAt(inv, salon_id, product_id) ==
    {i \in DOMAIN inv : /\ inv[i].salon_id = salon_id
                        /\ inv[i].product_id = product_id}

\* A table without one of its rows.
Delete(t, id) == [i \in DOMAIN t \ {id} |-> t[i]]

\* max(int(qty), 0)
ClampQty(qty) == IF qty > 0 THEN qty ELSE 0

\* The row of the ENTREPOT salon.
EntrepotIds(ss) == {i \in DOMAIN ss : ss[i].code = ENTREPOT_CODE}

get_or_create_entrepot(ss) ==
    IF EntrepotIds(ss) # {} THEN ss
    ELSE ss @@ ((Cardinality(DOMAIN ss) + 1) :> [code |-> ENTREPOT_CODE])

\* The primary key of a new inventory_item row.  Rows of this table are never
\* deleted, so the keys in use are 1..n and the next one is n + 1.
NewInvId(inv) == Cardinality(DOMAIN inv) + 1

\* The inventory table after upsert_inventory_entrepot found the row `row`
\* (0: none) for (salon_id, product_id).
upsert_inventory_entrepot(inv, row, salon_id, product_id, qty) ==
    IF row = 0
    THEN inv @@ (NewInvId(inv) :> [salon_id   |-> salon_id,
                            product_id |-> product_id,
                            quantity   |-> ClampQty(qty)])
    ELSE [inv EXCEPT ![row].quantity = ClampQty(qty)]

\* The inventory rows of `from` repointed to `to`.
Repoint(inv, from, to) ==
    [i \in DOMAIN inv |->
        IF inv[i].product_id = from THEN [inv[i] EXCEPT !.product_id = to]
        ELSE inv[i]]

\* The fields of a draft written to a Product row.
RowOf(data) == [wix_id |-> data.wix_id, sku |-> data.sku, options |-> data.options]


\* ------------------------------------------------------------------------
\* sync_wix_to_luxura (wix.py)
\* ------------------------------------------------------------------------
\* Faulty variants of the three definitions below: the map is built although
\* the fetch failed; the request goes on after the parents could not be
\* fetched; the session's rows outlive a rollback.
InvMapOf_built(c, meta) == _build_inventory_map_v1(c)
after_parents_running(fetched) == "running"
db_rollback_kept(committed, session) == session

\* Lines 289-294: inv_map is the map built from the inventory listing, or {}
\* when building it raised.
InvMapOf(c, meta) ==
    IF meta = "error" THEN EmptyTable ELSE _build_inventory_map_v1(c)

\* Lines 297-304: where the request stands after the parents fetch: in the
\* loops when it returned, at its end when it raised.
after_parents(fetched) == IF fetched THEN "running" ELSE "idle"

\* db.rollback(): a table as it was committed; the session's rows are gone.
db_rollback(committed, session) == committed

\* The request starts: the ENTREPOT salon is fetched or created (and
\* committed), the inventory map is fetched (inv_ok: without error) and the
\* parents are fetched.
StartRun(c, dry, inv_ok) ==
    /\ pc = "idle"
    /\ salons' = get_or_create_entrepot(salons)
    /\ pc' = after_parents(TRUE)
    /\ inv_meta' = IF inv_ok THEN "meta" ELSE "error"
    /\ response' = NoResponse
    /\ dry_run' = dry
    /\ catalog' = c
    /\ idx' = 1
    /\ tx_products' = products
    /\ tx_inventory' = inventory
    /\ cnt' = ZeroCounters
    /\ merged' = 0
    /\ last' = NoLast
    /\ resolved' = <<>>
    /\ mode' = IF c # catalog \/ dry THEN "fresh"
               ELSE IF prev = "committed" THEN "again"
               ELSE IF prev = "dry" THEN "afterDry"
               ELSE "fresh"
    /\ dry_cnt' = IF mode' = "afterDry" THEN dry_cnt ELSE ZeroCounters
    /\ UNCHANGED <<products, inventory, nextProductId, prev, norm_call>>
    /\ UNCHANGED <<fetch, db_session, parked, sync_runs, movement>>

\* Line 354: the matched row and the owner of the SKU are two rows.
MergeNeeded(existing, sku_owner) ==
    existing # 0 /\ sku_owner # 0 /\ sku_owner # existing

\* Lines 337-407 for one identified variant, with the rows the queries
\* returned: by_id (identity), by_sku (SKU fallback), sku_owner, and inv_row
\* (the ENTREPOT row of the product written).
ApplyVariant(data, by_id, by_sku, sku_owner, it_key, seen) ==
    LET found    == IF by_id # 0 THEN by_id ELSE by_sku
        merge    == MergeNeeded(found, sku_owner)
        inv1     == IF merge THEN Repoint(tx_inventory, found, sku_owner)
                    ELSE tx_inventory
        ps1      == IF merge THEN Delete(tx_products, found) ELSE tx_products
        existing == IF merge THEN sku_owner ELSE found
        prod     == IF existing # 0 THEN existing ELSE nextProductId
        ps2      == IF existing # 0
                    THEN [ps1 EXCEPT ![existing] = RowOf(data)]
                    ELSE ps1 @@ (nextProductId :> RowOf(data))
        inv_map  == InvMapOf(catalog, inv_meta)
        has_it   == it_key \in DOMAIN inv_map
        it       == inv_map[it_key]
        opts     == IF has_it /\ Truthy(it.vendor_sku)
                    THEN [wix_variant_id |-> data.options.wix_variant_id,
                          vendor_sku     |-> it.vendor_sku]
                    ELSE data.options
        ps3      == [ps2 EXCEPT ![prod].options = opts]
        write    == has_it /\ it.track
        entrepot == CHOOSE s \in EntrepotIds(salons) : TRUE
    IN  /\ existing # 0 \/ nextProductId <= MaxId
        /\ tx_products' = ps3
        /\ nextProductId' = IF existing # 0 THEN nextProductId
                            ELSE nextProductId + 1
        /\ merged' = IF merge THEN merged + 1 ELSE merged
        /\ resolved' = Append(resolved, prod)
        /\ \E inv_row \in First(InvAt(inv1, entrepot, prod)) :
              /\ tx_inventory' =
                    IF write
                    THEN upsert_inventory_entrepot(inv1, inv_row,
                             entrepot, prod, it.qty)
                    ELSE inv1
              /\ last' = [kind |-> IF merge THEN "merge"
                                   ELSE IF existing # 0 THEN "update"
                                   ELSE "create",
                          via |-> IF by_id # 0 THEN "identity"
                                  ELSE IF by_sku # 0 THEN "sku" ELSE "none",
                          a |-> found, b |-> sku_owner, prod |-> prod,
                          moved |-> IF merge
                                    THEN InvOfProduct(tx_inventory, found)
                                    ELSE {},
                          wrote |-> write,
                          inv_row |-> IF ~write THEN 0
                                      ELSE IF inv_row = 0 THEN NewInvId(inv1)
                                      ELSE inv_row]
        /\ cnt' = [seen EXCEPT
                     !.created = @ + (IF existing # 0 THEN 0 ELSE 1),
                     !.updated = @ + (IF existing # 0 THEN 1 ELSE 0),
                     !.inv_written = @ + (IF write THEN 1 ELSE 0)]

\* One pass of the loops over parents and variants, for catalog[idx].
ProcessVariant ==
    /\ pc = "running"
    /\ idx <= Len(catalog)
    /\ LET e     == catalog[idx]
           p     == RawParent(e)
           v     == RawVariant(e)
           data  == normalize_variant(p, v)
           first == idx = 1 \/ catalog[idx - 1].pid # e.pid
           seen  == [cnt EXCEPT
                       !.variants_seen = @ + 1,
                       !.parents_processed = @ + (IF first THEN 1 ELSE 0)]
       IN  IF ~Truthy(p.id)
           THEN /\ last' = [NoLast EXCEPT !.kind = "noparent"]
                /\ resolved' = Append(resolved, 0)
                /\ UNCHANGED <<tx_products, tx_inventory, nextProductId,
                               cnt, merged>>
           ELSE IF ~data.valid \/ Strip(data.sku) = ""
           THEN /\ cnt' = [seen EXCEPT !.skipped_no_sku = @ + 1]
                /\ last' = [NoLast EXCEPT !.kind = "skip"]
                /\ resolved' = Append(resolved, 0)
                /\ UNCHANGED <<tx_products, tx_inventory, nextProductId,
                               merged>>
           ELSE LET sku    == Strip(data.sku)
                    wix_id == Strip(data.wix_id)
                    vid    == data.options.wix_variant_id
                IN  \E by_id \in First(ByIdentity(tx_products, wix_id, vid)),
                       by_sku \in First(BySku(tx_products, sku)),
                       sku_owner \in First(BySku(tx_products, sku)) :
                       ApplyVariant(data, by_id, by_sku, sku_owner,
                                    InvKey(Strip(p.id), Strip(vid)), seen)
    /\ idx' = idx + 1
    /\ UNCHANGED <<salons, products, inventory, pc, dry_run, catalog, mode,
                   prev, dry_cnt, norm_call, inv_meta, response>>
    /\ UNCHANGED <<fetch, db_session, parked, sync_runs, movement>>

\* db.commit() after the last variant, and the summary returned.  The handler
\* takes (db, limit) only: what the caller asked about a dry run plays no part.
Commit ==
    /\ pc = "running"
    /\ idx > Len(catalog)
    /\ products' = tx_products
    /\ inventory' = tx_inventory
    /\ dry_cnt' = IF dry_run THEN cnt ELSE ZeroCounters
    /\ prev' = IF dry_run THEN "dry" ELSE "committed"
    /\ pc' = "idle"
    /\ tx_products' = products'
    /\ tx_inventory' = inventory'
    /\ idx' = 1
    /\ cnt' = ZeroCounters
    /\ merged' = 0
    /\ last' = NoLast
    /\ resolved' = <<>>
    /\ mode' = "fresh"
    /\ response' = Summary(inv_meta)
    /\ inv_meta' = "meta"
    /\ UNCHANGED <<salons, nextProductId, dry_run, catalog, norm_call>>
    /\ UNCHANGED <<fetch, db_session, parked, sync_runs, movement>>

\* An exception inside the try block (a failed variants fetch, a database
\* error): db.rollback() and a 500 response.
FailRun ==
    /\ pc = "running"
    /\ dry_cnt' = ZeroCounters
    /\ prev' = "failed"
    /\ pc' = "idle"
    /\ products' = db_rollback(products, tx_products)
    /\ inventory' = db_rollback(inventory, tx_inventory)
    /\ tx_products' = products'
    /\ tx_inventory' = inventory'
    /\ catalog' = <<>>
    /\ idx' = 1
    /\ cnt' = ZeroCounters
    /\ merged' = 0
    /\ last' = NoLast
    /\ resolved' = <<>>
    /\ mode' = "fresh"
    /\ dry_run' = FALSE
    /\ response' = HTTPException("DB Error")
    /\ inv_meta' = "meta"
    /\ UNCHANGED <<salons, nextProductId, norm_call>>
    /\ UNCHANGED <<fetch, db_session, parked, sync_runs, movement>>

\* Lines 297-304: the parents fetch raises, after the ENTREPOT salon was
\* fetched or created and the inventory map fetched: a 500 response.
FailParents ==
    /\ pc = "idle"
    /\ salons' = get_or_create_entrepot(salons)
    /\ pc' = after_parents(FALSE)
    /\ response' = HTTPException("Wix fetch parents failed")
    /\ prev' = "parents_failed"
    /\ catalog' = <<>>
    /\ mode' = "fresh"
    /\ dry_cnt' = ZeroCounters
    /\ dry_run' = FALSE
    /\ UNCHANGED <<products, inventory, nextProductId, idx, tx_products,
                   tx_inventory, cnt, merged, last, resolved, norm_call,
                   inv_meta>>
    /\ UNCHANGED <<fetch, db_session, parked, sync_runs, movement>>

\* The sync requests served one after the other, the platform and the
\* database answering every call.
Next ==
    \/ \E c \in Catalogs : StartRun(c, FALSE, TRUE)
    \/ ProcessVariant
    \/ Commit

Spec == Init /\ [][Next]_vars



\* The catalogs of the specification with dry-run requests: the reported
\* quantities are not negative (the counters of a run do not depend on them).
CatalogsDry == {c \in Catalogs : \A i \in DOMAIN c : c[i].inv.qty >= 0}

\* The same handler called as RunSync(limit, dryRun), with either value of
\* dryRun.
NextDry ==
    \/ \E c \in CatalogsDry, dry \in BOOLEAN : StartRun(c, dry, TRUE)
    \/ ProcessVariant
    \/ Commit

SpecDry == Init /\ [][NextDry]_vars

\* The requests with calls that may fail: the inventory fetch, the parents
\* fetch, and any call inside the loops or the commit.
NextFault ==
    \/ \E c \in CatalogsDry, inv_ok \in BOOLEAN : StartRun(c, FALSE, inv_ok)
    \/ FailParents
    \/ ProcessVariant
    \/ Commit
    \/ FailRun

SpecFault == Init /\ [][NextFault]_vars

\* Catalogs in which the inventory listing holds variants with quantity
\* tracking disabled (trackQuantity false), besides unlisted and tracked ones.
InvInfosUntracked ==
    {[listed |-> FALSE, track |-> FALSE, qty |-> 0, vendor_sku |-> None],
     [listed |-> TRUE, track |-> FALSE, qty |-> -1, vendor_sku |-> None],
     [listed |-> TRUE, track |-> TRUE, qty |-> 2, vendor_sku |-> None]}

CatalogsUntracked ==
    {c \in UNION {[1..n -> [pid : {i[1] : i \in Idents},
                            vid : {i[2] : i \in Idents},
                            sku : RawSkus, inv : InvInfosUntracked]] :
                     n \in 0..Cardinality(Idents)} :
        /\ \A i \in DOMAIN c : <<c[i].pid, c[i].vid>> \in Idents
        /\ \A i, j \in DOMAIN c :
              (c[i].pid = c[j].pid /\ c[i].vid = c[j].vid) => i = j}

NextUntracked ==
    \/ \E c \in CatalogsUntracked : StartRun(c, FALSE, TRUE)
    \/ ProcessVariant
    \/ Commit

SpecUntracked == Init /\ [][NextUntracked]_vars

\* Catalogs with parents and variants that carry no id, and with variants
\* that carry no SKU.  The inventory listing holds nothing for a variant
\* without ids.
CatalogsSkip ==
    {c \in UNION {[1..n -> [pid : {"P1", ""}, vid : {"V1", "V2", ""},
                            sku : {"X", ""},
                            inv : {i \in InvInfos : i.qty >= 0}]] :
                     n \in 0..Cardinality(Idents)} :
        /\ \A i \in DOMAIN c :
              (c[i].pid = "" \/ c[i].vid = "") => ~c[i].inv.listed
        /\ \A i, j \in DOMAIN c :
              (c[i].pid = c[j].pid /\ c[i].vid = c[j].vid) => i = j}

NextSkip ==
    \/ \E c \in CatalogsSkip : StartRun(c, FALSE, TRUE)
    \/ ProcessVariant
    \/ Commit

SpecSkip == Init /\ [][NextSkip]_vars

\* normalize_variant called on its own, on payloads with padded or missing
\* ids, the SKU in any of its places, and prices of several Python types.
NormParents ==
    [id : {None, "P1", " P1"},
     price : {PyAbsent, PyNum(10), PyStr("abc")}]
NormVariants ==
    [id : {"", "V1", "V1 "},
     sku : {None, " ", " X", SkuDict},
     variant_sku : {None, "A"},
     stockKeepingUnit : {None, "B"},
     skuData_sku : {None, "C"},
     vendorSku : {None, "W"},
     itemNumber : {None, "N"},
     price : {PyAbsent, PyStr(""), PyNum(5), PyNum(-5), PyStr("abc"),
              PyStr("7")}]

InitNorm ==
    /\ InitStore
    /\ norm_call \in {[called |-> FALSE, parent |-> p, variant |-> v,
                        draft |-> NoDraft] :
                          p \in NormParents, v \in NormVariants}

Normalize ==
    /\ ~norm_call.called
    /\ norm_call' = [norm_call EXCEPT
                        !.called = TRUE,
                        !.draft = normalize_variant(norm_call.parent,
                                                    norm_call.variant)]
    /\ UNCHANGED <<salons, products, inventory, nextProductId, pc, dry_run,
                   catalog, idx, tx_products, tx_inventory, cnt, merged,
                   last, resolved, mode, prev, dry_cnt, inv_meta, response>>
    /\ UNCHANGED <<fetch, db_session, parked, sync_runs, movement>>

NextNorm == Normalize

SpecNorm == InitNorm /\ [][NextNorm]_vars

\* ------------------------------------------------------------------------
\* Paginated fetches (wix_client.py, wix.py)
\* ------------------------------------------------------------------------
\* The page-size cap of the platform (min(max(int(limit), 1), 100)), the page
\* bounds the handler passes, and the handler's default limit.
PAGE_CAP == 100
SYNC_MAX_PAGES == 10
INV_MAX_PAGES == 50
DEFAULT_LIMIT == 200

\* Page requests one fetch may send in the model.
MaxRequests == 60

Min(a, b) == IF a < b THEN a ELSE b
Max(a, b) == IF a > b THEN a ELSE b

\* per_page = min(max(int(limit), 1), 100)
PerPage(limit) == Min(Max(limit, 1), PAGE_CAP)

\* The entries a fetch has collected so far: all_items, or inv_map.
Collected(f) == IF f.fn = "query_products_v1" THEN f.items ELSE f.inv_map

\* Faulty variants of the three definitions below: the loop ignores
\* max_pages; the inventory loop goes on after a short page; a failed page
\* ends the loop and what was collected is returned.
products_break_unbounded(cursor, bounded, max_pages, pages) == ~cursor
inventory_continue_always(pages, max_pages, served, page_limit) ==
    pages < max_pages
RuntimeError_partial(f) ==
    [f EXCEPT !.st = "returned", !.result = Collected(f)]

\* query_products_v1, lines 69-73: the loop is left when the response held
\* no cursor, or when max_pages is a number and that many pages were read.
products_break(cursor, bounded, max_pages, pages) ==
    ~cursor \/ (bounded /\ pages >= max_pages)

\* _build_inventory_map_v1, lines 114 and 163-165: after a page, the loop
\* goes on when the page was full and pages < max_pages.
inventory_continue(pages, max_pages, served, page_limit) ==
    served >= page_limit /\ pages < max_pages

\* raise RuntimeError(...) on a response whose status is not 200 (lines 58-59
\* and 194-195): the call ends without a return value.  The handler catches
\* the error of the inventory fetch and goes on with inv_map = {} (lines
\* 292-294): no entry either.
RuntimeError(f) == [f EXCEPT !.st = "raised", !.result = 0]

\* query_products_v1(limit, max_pages) is called (lines 45-50).
query_products_v1(limit, bounded, max_pages, size, endless, caller, req) ==
    /\ fetch.st # "loop"
    /\ fetch' = [NoFetch EXCEPT
                    !.fn = "query_products_v1", !.caller = caller,
                    !.limit = req, !.per_page = PerPage(limit),
                    !.bounded = bounded, !.max_pages = max_pages,
                    !.size = size, !.endless = endless, !.st = "loop"]
    /\ UNCHANGED <<salons, products, inventory, nextProductId, pc, dry_run,
                   catalog, idx, tx_products, tx_inventory, cnt, merged,
                   last, resolved, mode, prev, dry_cnt, norm_call, inv_meta,
                   response, db_session, parked, sync_runs, movement>>

\* The handler fetches the parents for its `limit` (lines 298-301).
FetchParents(limit_arg, size, endless) ==
    LET limit     == IF limit_arg = 0 THEN DEFAULT_LIMIT ELSE limit_arg
        per_page  == Min(Max(limit, 1), PAGE_CAP)
        bounded   == limit > PAGE_CAP
        max_pages == IF bounded THEN SYNC_MAX_PAGES ELSE 0
    IN  query_products_v1(per_page, bounded, max_pages, size, endless,
                          "sync", limit)

\* One pass of the loop of query_products_v1 (lines 52-73): one page request.
\* The platform answers with an error status, or with the next per_page items
\* of its listing and a cursor when more remain (always, when endless).
ProductsPage ==
    /\ fetch.fn = "query_products_v1"
    /\ fetch.st = "loop"
    /\ fetch.requests < MaxRequests
    /\ \E status \in {200, 500} :
          LET sent   == [fetch EXCEPT !.requests = @ + 1, !.status = status]
              served == Min(fetch.per_page, fetch.size - fetch.items)
              items  == fetch.items + served
              cursor == fetch.endless \/ items < fetch.size
              pages  == fetch.pages + 1
              stop   == products_break(cursor, fetch.bounded,
                                       fetch.max_pages, pages)
          IN  fetch' = IF status # 200 THEN RuntimeError(sent)
                       ELSE [sent EXCEPT
                               !.items = items, !.cursor = cursor,
                               !.pages = pages, !.signalled = ~cursor,
                               !.st = IF stop THEN "returned" ELSE "loop",
                               !.result = IF stop THEN items ELSE 0]
    /\ UNCHANGED <<salons, products, inventory, nextProductId, pc, dry_run,
                   catalog, idx, tx_products, tx_inventory, cnt, merged,
                   last, resolved, mode, prev, dry_cnt, norm_call, inv_meta,
                   response, db_session, parked, sync_runs, movement>>

\* _build_inventory_map_v1(client, page_limit, max_pages) is called (lines
\* 107-114); with max_pages <= 0 the loop is not entered.
BuildInventoryMap(page_limit, max_pages, size, endless, caller) ==
    /\ fetch.st # "loop"
    /\ fetch' = [NoFetch EXCEPT
                    !.fn = "_build_inventory_map_v1", !.caller = caller,
                    !.per_page = PerPage(page_limit), !.bounded = TRUE,
                    !.max_pages = max_pages, !.size = size,
                    !.endless = endless,
                    !.st = IF 0 < max_pages THEN "loop" ELSE "returned"]
    /\ UNCHANGED <<salons, products, inventory, nextProductId, pc, dry_run,
                   catalog, idx, tx_products, tx_inventory, cnt, merged,
                   last, resolved, mode, prev, dry_cnt, norm_call, inv_meta,
                   response, db_session, parked, sync_runs, movement>>

\* One pass of the loop of _build_inventory_map_v1 (lines 115-165): one page
\* request at the current offset.  The platform answers with an error status,
\* or with the items of its listing from that offset on (a full page on every
\* request, when endless); every item maps one variant.
InventoryPage ==
    /\ fetch.fn = "_build_inventory_map_v1"
    /\ fetch.st = "loop"
    /\ fetch.requests < MaxRequests
    /\ \E status \in {200, 500} :
          LET sent   == [fetch EXCEPT !.requests = @ + 1, !.status = status]
              served == IF fetch.endless THEN fetch.per_page
                        ELSE Min(fetch.per_page,
                                 Max(fetch.size - fetch.offset, 0))
              pages  == fetch.pages + 1
              go_on  == inventory_continue(pages, fetch.max_pages, served,
                                           fetch.per_page)
          IN  fetch' = IF status # 200 THEN RuntimeError(sent)
                       ELSE [sent EXCEPT
                               !.items = @ + served,
                               !.inv_map = @ + served,
                               !.pages = pages,
                               !.signalled = served < fetch.per_page,
                               !.offset = IF served < fetch.per_page THEN @
                                          ELSE @ + fetch.per_page,
                               !.st = IF go_on THEN "loop" ELSE "returned",
                               !.result = IF go_on THEN 0
                                          ELSE fetch.inv_map + served]
    /\ UNCHANGED <<salons, products, inventory, nextProductId, pc, dry_run,
                   catalog, idx, tx_products, tx_inventory, cnt, merged,
                   last, resolved, mode, prev, dry_cnt, norm_call, inv_meta,
                   response, db_session, parked, sync_runs, movement>>

\* The arguments and the listings of the specification of the fetches.
FetchLimits == {0, 1, 2, 150}
FetchMaxPages == 0..3
ListingSizes == {0, 1, 2, 3, 5, 250}
SyncLimits == {1, 2, 100, 101, 200}
SyncListingSizes == {0, 1, 3, 150, 1200}

\* Fetches called one after the other: directly with any arguments, and by
\* the handler with the arguments it computes.
NextFetch ==
    \/ \E limit \in FetchLimits, bounded \in BOOLEAN,
          max_pages \in FetchMaxPages, size \in ListingSizes,
          endless \in BOOLEAN :
          /\ bounded \/ max_pages = 0
          /\ query_products_v1(limit, bounded, max_pages, size, endless,
                               "direct", 0)
    \/ \E limit \in SyncLimits, size \in SyncListingSizes,
          endless \in BOOLEAN : FetchParents(limit, size, endless)
    \/ ProductsPage
    \/ \E page_limit \in FetchLimits, max_pages \in FetchMaxPages,
          size \in ListingSizes, endless \in BOOLEAN :
          BuildInventoryMap(page_limit, max_pages, size, endless, "direct")
    \/ \E size \in SyncListingSizes, endless \in BOOLEAN :
          BuildInventoryMap(PAGE_CAP, INV_MAX_PAGES, size, endless, "sync")
    \/ InventoryPage

SpecFetch == Init /\ [][NextFetch]_vars

\* ------------------------------------------------------------------------
\* Requests served by two worker threads
\* ------------------------------------------------------------------------
\* sync_wix_to_luxura is a plain `def` endpoint: each request is served by a
\* thread of the worker pool with a session of its own (get_session), and the
\* handler takes no lock.  The variables of the request being stepped are pc,
\* catalog, idx, tx_products, ...; those of the other request are in `parked`.
\* A session reads the committed rows and its own pending writes, and a write
\* to a row waits while the other session holds a pending write to that row.

\* Lines 65-68 of get_or_create_entrepot, after the select of lines 62-64
\* returned `found` (0: None): the row is added and committed.
entrepot_after_select(ss, found) ==
    IF found # 0 THEN ss
    ELSE ss @@ ((Cardinality(DOMAIN ss) + 1) :> [code |-> ENTREPOT_CODE])

\* The rows of a table a session has pending writes to: inserted or changed
\* rows, and deleted rows.
WrittenRows(base, view) ==
    {i \in DOMAIN view : i \notin DOMAIN base \/ view[i] # base[i]}
        \cup (DOMAIN base \ DOMAIN view)

\* What a session reads: the committed rows, with its own pending writes.
Refresh(committed, base, view) ==
    LET written == {i \in DOMAIN view :
                       i \notin DOMAIN base \/ view[i] # base[i]}
        deleted == DOMAIN base \ DOMAIN view
    IN  [i \in ((DOMAIN committed \ deleted) \cup written) |->
            IF i \in written THEN view[i] ELSE committed[i]]

\* The variables of the request being stepped.
Context ==
    [pc |-> pc, dry_run |-> dry_run, catalog |-> catalog, idx |-> idx,
     tx_products |-> tx_products, tx_inventory |-> tx_inventory,
     cnt |-> cnt, merged |-> merged, last |-> last, resolved |-> resolved,
     mode |-> mode, inv_meta |-> inv_meta, db_session |-> db_session]

\* No row is written by both sessions at once.
NoLockConflict ==
    /\ WrittenRows(db_session.base_products, tx_products)
         \cap WrittenRows(parked.db_session.base_products,
                          parked.tx_products) = {}
    /\ WrittenRows(db_session.base_inventory, tx_inventory)
         \cap WrittenRows(parked.db_session.base_inventory,
                          parked.tx_inventory) = {}

\* Lines 285-286 and 62-64: a request starts, and its session selects the
\* ENTREPOT salon.
SelectEntrepot ==
    /\ pc = "idle"
    /\ pc' = "entrepot"
    /\ \E found \in First(EntrepotIds(salons)) :
          db_session' = [NoSession EXCEPT !.entrepot = found]
    /\ UNCHANGED <<salons, products, inventory, nextProductId, dry_run,
                   catalog, idx, tx_products, tx_inventory, cnt, merged,
                   last, resolved, mode, prev, dry_cnt, norm_call, inv_meta,
                   response, fetch, parked, sync_runs, movement>>

\* Lines 65-68 and 288-306: the ENTREPOT salon is created when the select
\* found none, and committed; the inventory map and the parents are fetched.
EnterRun(c) ==
    /\ pc = "entrepot"
    /\ salons' = entrepot_after_select(salons, db_session.entrepot)
    /\ db_session' =
          [base_products |-> products, base_inventory |-> inventory,
           entrepot |-> IF db_session.entrepot # 0 THEN db_session.entrepot
                        ELSE Cardinality(DOMAIN salons) + 1]
    /\ pc' = after_parents(TRUE)
    /\ inv_meta' = "meta"
    /\ response' = NoResponse
    /\ dry_run' = FALSE
    /\ catalog' = c
    /\ idx' = 1
    /\ tx_products' = products
    /\ tx_inventory' = inventory
    /\ cnt' = ZeroCounters
    /\ merged' = 0
    /\ last' = NoLast
    /\ resolved' = <<>>
    /\ mode' = "fresh"
    /\ dry_cnt' = ZeroCounters
    /\ UNCHANGED <<products, inventory, nextProductId, prev, norm_call,
                   fetch, parked, sync_runs, movement>>

\* The scheduler suspends the thread of the request being stepped and
\* resumes the other one, whose session reads what is committed by now.
Switch ==
    /\ pc # "idle" \/ parked.pc # "idle"
    /\ parked' = IF pc = "idle" THEN NoParked ELSE Context
    /\ pc' = parked.pc
    /\ dry_run' = parked.dry_run
    /\ catalog' = parked.catalog
    /\ idx' = parked.idx
    /\ tx_products' = Refresh(products, parked.db_session.base_products,
                              parked.tx_products)
    /\ tx_inventory' = Refresh(inventory, parked.db_session.base_inventory,
                               parked.tx_inventory)
    /\ cnt' = parked.cnt
    /\ merged' = parked.merged
    /\ last' = parked.last
    /\ resolved' = parked.resolved
    /\ mode' = parked.mode
    /\ inv_meta' = parked.inv_meta
    /\ db_session' = [parked.db_session EXCEPT
                         !.base_products = products,
                         !.base_inventory = inventory]
    /\ UNCHANGED <<salons, products, inventory, nextProductId, prev,
                   dry_cnt, norm_call, response, fetch, sync_runs,
                   movement>>

\* Catalogs of the overlapping requests: at most one variant, with an id and
\* the SKU X, that the inventory listing does not hold.
CatalogsOverlap ==
    {c \in Catalogs :
        /\ Len(c) <= 1
        /\ \A i \in DOMAIN c : ~c[i].inv.listed /\ c[i].sku = "X"}

\* Two requests served at once, each stepped while the other is suspended.
NextOverlap ==
    \/ SelectEntrepot
    \/ \E c \in CatalogsOverlap : EnterRun(c)
    \/ ProcessVariant /\ NoLockConflict'
    \/ Commit
    \/ FailRun
    \/ Switch

SpecOverlap == Init /\ [][NextOverlap]_vars

\* ------------------------------------------------------------------------
\* record_movement (movement.py)
\* ------------------------------------------------------------------------
\* The largest quantity a row of the model holds.
MaxQty == 3

MovementTypes == {"IN", "OUT", "SALE", "ADJUST"}
\* qty: int = Query(..., gt=0)
MovementQtys == {1, 2}

\* A faulty variant of apply_movement: OUT and SALE are not clamped.
apply_movement_unclamped(type, quantity, qty) ==
    IF type = "IN" THEN quantity + qty
    ELSE IF type \in {"OUT", "SALE"} THEN quantity - qty
    ELSE qty

\* Lines 53-60: the quantity of the row after a movement of `type`.
apply_movement(type, quantity, qty) ==
    IF type = "IN" THEN quantity + qty
    ELSE IF type \in {"OUT", "SALE"}
    THEN (IF quantity - qty < 0 THEN 0 ELSE quantity - qty)
    ELSE qty

\* record_movement(type, salon_id, product_id, qty): the row is selected
\* (.first()), created with quantity 0 when there is none, changed and
\* committed.
record_movement(type, salon_id, product_id, qty) ==
    /\ pc = "idle"
    /\ \E row \in First(InvAt(inventory, salon_id, product_id)) :
          LET id     == IF row = 0 THEN NewInvId(inventory) ELSE row
              inv0   == IF row = 0
                        THEN inventory @@
                               (id :> [salon_id   |-> salon_id,
                                       product_id |-> product_id,
                                       quantity   |-> 0])
                        ELSE inventory
              result == apply_movement(type, inv0[id].quantity, qty)
          IN  /\ result <= MaxQty
              /\ inventory' = [inv0 EXCEPT ![id].quantity = result]
              /\ movement' = [type |-> type, salon_id |-> salon_id,
                              product_id |-> product_id, qty |-> qty,
                              quantity |-> result, inventory_id |-> id]
    /\ tx_inventory' = inventory'
    /\ UNCHANGED <<salons, products, nextProductId, pc, dry_run, catalog,
                   idx, tx_products, cnt, merged, last, resolved, mode,
                   prev, dry_cnt, norm_call, inv_meta, response, fetch,
                   db_session, parked, sync_runs>>

\* A store with a salon and two products, and no inventory row yet.
InitMove ==
    /\ salons = (1 :> [code |-> ENTREPOT_CODE])
    /\ products =
          (1 :> RowOf([wix_id |-> "P1", sku |-> "X",
                       options |-> [wix_variant_id |-> "V1"]]))
          @@ (2 :> RowOf([wix_id |-> "P1", sku |-> "Y",
                          options |-> [wix_variant_id |-> "V2"]]))
    /\ inventory = EmptyTable
    /\ nextProductId = 3
    /\ pc = "idle"
    /\ dry_run = FALSE
    /\ catalog = <<>>
    /\ idx = 1
    /\ tx_products = products
    /\ tx_inventory = EmptyTable
    /\ cnt = ZeroCounters
    /\ merged = 0
    /\ last = NoLast
    /\ resolved = <<>>
    /\ mode = "fresh"
    /\ prev = "none"
    /\ dry_cnt = ZeroCounters
    /\ inv_meta = "meta"
    /\ response = NoResponse
    /\ norm_call = NoCall
    /\ fetch = NoFetch
    /\ db_session = NoSession
    /\ parked = NoParked
    /\ sync_runs = EmptyTable
    /\ movement = NoMovement

\* Movements recorded one after the other.
NextMove ==
    \E type \in MovementTypes, salon_id \in DOMAIN salons,
       product_id \in DOMAIN products, qty \in MovementQtys :
       record_movement(type, salon_id, product_id, qty)

SpecMove == InitMove /\ [][NextMove]_vars

\* ------------------------------------------------------------------------
\* seo_apply (seo.py)
\* ------------------------------------------------------------------------
\* The keys seo_apply stores in the options of a product (lines 310-321).
SeoKeys == {"seo_parent", "seo_variant"}

\* The keys of the options the sync produces: those of the draft
\* (catalog_normalizer.py 106-110) and vendor_sku (wix.py 395).
SyncKeys == {"wix_variant_id", "choices", "vendor_sku"}

\* Lines 294-323: the options of a product with the two SEO entries set.
with_seo(opts) ==
    [k \in DOMAIN opts \cup SeoKeys |->
        IF k \in SeoKeys THEN "seo" ELSE opts[k]]

\* seo_apply(product_ids, confirm=true): the SEO entries are stored in the
\* options of each listed product that exists, and committed.
seo_apply(product_ids) ==
    /\ pc = "idle"
    /\ products' =
          [i \in DOMAIN products |->
              IF i \in product_ids
              THEN [products[i] EXCEPT !.options = with_seo(@)]
              ELSE products[i]]
    /\ tx_products' = products'
    /\ UNCHANGED <<salons, inventory, nextProductId, pc, dry_run, catalog,
                   idx, tx_inventory, cnt, merged, last, resolved, mode,
                   prev, dry_cnt, norm_call, inv_meta, response, fetch,
                   db_session, parked, sync_runs, movement>>

\* Catalogs of the specification with SEO requests: at most one variant.
CatalogsSeo == {c \in Catalogs : Len(c) <= 1}

\* Sync requests and SEO requests served one after the other.
NextSeo ==
    \/ \E c \in CatalogsSeo : StartRun(c, FALSE, TRUE)
    \/ ProcessVariant
    \/ Commit
    \/ \E product_ids \in SUBSET (1..MaxId) : seo_apply(product_ids)

SpecSeo == Init /\ [][NextSeo]_vars

\* ------------------------------------------------------------------------
\* Properties
\* ------------------------------------------------------------------------
\* The run has handled its last variant and is about to commit.
AtEnd == pc = "running" /\ idx > Len(catalog)

\* The draft of the variant at position i of the catalog.
DraftAt(i) == normalize_variant(RawParent(catalog[i]), RawVariant(catalog[i]))

SkuUnique(ps) == \A i, j \in DOMAIN ps : ps[i].sku = ps[j].sku => i = j

IdentityUnique(ps) ==
    \A i, j \in DOMAIN ps :
        (/\ ps[i].wix_id = ps[j].wix_id
         /\ ps[i].options.wix_variant_id = ps[j].options.wix_variant_id)
        => i = j

\* C1 -- SKU uniqueness: after any sequence of committed sync runs no two
\* Product rows of the store share a SKU.
C1_SkuUniqueness == SkuUnique(products)

\* A committed run that merged a drifted row away and left two products.
C1_Witness ==
    /\ pc = "idle" /\ prev = "committed"
    /\ nextProductId = 4
    /\ Cardinality(DOMAIN products) = 2

\* C2 -- identity uniqueness: after any sequence of committed sync runs there
\* is at most one Product row per (wix_id, options.wix_variant_id).
C2_IdentityUniqueness == IdentityUnique(products)

\* A committed run in which a row found by its SKU was given another
\* variant id while a second row exists.
C2_Witness ==
    /\ pc = "idle" /\ prev = "committed"
    /\ \E i, j \in DOMAIN products :
          /\ i < j
          /\ products[i].sku = "X"
          /\ products[i].options.wix_variant_id = "V2"
          /\ products[j].sku = "Y"
          /\ products[j].options.wix_variant_id = "V1"


\* The rows of a table that differ from, or are missing in, another.
SameQuantities(inv_a, inv_b) ==
    /\ DOMAIN inv_a = DOMAIN inv_b
    /\ \A i \in DOMAIN inv_a : inv_a[i].quantity = inv_b[i].quantity

\* C3 -- idempotence: a run over the same external data as the committed run
\* just before it creates no Product, merges nothing, counts every variant it
\* identifies as updated, and leaves every InventoryItem quantity as the
\* first run left it.
C3_Idempotence ==
    (AtEnd /\ mode = "again") =>
        /\ cnt.created = 0
        /\ merged = 0
        /\ cnt.updated = cnt.variants_seen - cnt.skipped_no_sku
        /\ SameQuantities(tx_inventory, inventory)

\* The part of C3 about the counters alone.
C3_Counters ==
    (AtEnd /\ mode = "again") =>
        /\ cnt.created = 0
        /\ merged = 0
        /\ cnt.updated = cnt.variants_seen - cnt.skipped_no_sku

\* C4 -- dry-run equivalence: a dry run returns the counters the real run
\* over the same store and the same external data returns, and leaves the
\* persisted Products and InventoryItems as they were before it.
C4_DryRunEquivalence ==
    /\ []((AtEnd /\ mode = "afterDry") => cnt = dry_cnt)
    /\ [][(pc = "running" /\ dry_run /\ pc' = "idle") =>
              (products' = products /\ inventory' = inventory)]_vars

\* The rows the by-identity query, and the by-SKU query, return for a draft.
RowsWithIdentity(ps, d) ==
    {i \in DOMAIN ps : /\ ps[i].wix_id = d.wix_id
                       /\ ps[i].options.wix_variant_id = d.options.wix_variant_id}
RowsWithSku(ps, d) == {i \in DOMAIN ps : ps[i].sku = d.sku}

\* The step that handles the variant at position idx.
VariantStep == pc = "running" /\ idx <= Len(catalog) /\ idx' = idx + 1

\* C5 -- drift resolution: when the row matched for a variant (A: by
\* identity, else by SKU) and the owner of the variant's SKU (B) are two rows,
\* then after the variant is handled B exists and carries the variant's
\* identity and SKU, A is gone, and every InventoryItem that pointed at A
\* points at B.
C5_DriftResolution ==
    [][VariantStep =>
        LET d      == DraftAt(idx)
            owners == RowsWithSku(tx_products, d)
            cand   == IF RowsWithIdentity(tx_products, d) # {}
                      THEN RowsWithIdentity(tx_products, d) ELSE owners
        IN  \A a \in cand, b \in owners :
               a # b =>
                 /\ b \in DOMAIN tx_products'
                 /\ tx_products'[b].sku = d.sku
                 /\ tx_products'[b].wix_id = d.wix_id
                 /\ tx_products'[b].options.wix_variant_id
                       = d.options.wix_variant_id
                 /\ a \notin DOMAIN tx_products'
                 /\ \A i \in DOMAIN tx_inventory :
                       tx_inventory[i].product_id = a =>
                         /\ i \in DOMAIN tx_inventory'
                         /\ tx_inventory'[i].product_id = b]_vars

\* A drift merge that moved an inventory row from A to B.
C5_Witness ==
    /\ pc = "running"
    /\ last.kind = "merge"
    /\ last.moved # {}
    /\ \A i \in last.moved : tx_inventory[i].product_id = last.b

NoOrphans(ps, inv) == \A i \in DOMAIN inv : inv[i].product_id \in DOMAIN ps

\* C6 -- inventory continuity: every InventoryItem refers to a Product that
\* exists, in the store and in the session of a run, and no step removes an
\* InventoryItem row.
C6_InventoryContinuity ==
    /\ [](NoOrphans(products, inventory) /\ NoOrphans(tx_products, tx_inventory))
    /\ [][/\ DOMAIN inventory \subseteq DOMAIN inventory'
          /\ DOMAIN tx_inventory \subseteq DOMAIN tx_inventory']_vars

\* A committed store in which a merge moved an inventory row onto a product
\* that had one.
C6_Witness ==
    /\ pc = "idle" /\ prev = "committed"
    /\ Cardinality(DOMAIN inventory) > Cardinality(DOMAIN products)
    /\ NoOrphans(products, inventory)

\* C7 -- InventoryItem key uniqueness: the store holds at most one
\* InventoryItem per (salon_id, product_id).
C7_InventoryKeyUniqueness ==
    \A i, j \in DOMAIN inventory :
        (/\ inventory[i].salon_id = inventory[j].salon_id
         /\ inventory[i].product_id = inventory[j].product_id) => i = j

\* C8 -- variant-id change: when a variant arrives whose parent id and SKU
\* are those of a row that holds another variant id, that row (same primary
\* key) is the one the SKU lookup returns and the one updated, it now holds
\* the new variant id, and no row is created.
C8_VariantIdChange ==
    [][VariantStep =>
        LET d == DraftAt(idx)
        IN  \A r \in DOMAIN tx_products :
               (/\ tx_products[r].wix_id = d.wix_id
                /\ tx_products[r].sku = d.sku
                /\ tx_products[r].options.wix_variant_id
                      # d.options.wix_variant_id) =>
                 /\ r \in DOMAIN tx_products'
                 /\ tx_products'[r].options.wix_variant_id
                       = d.options.wix_variant_id
                 /\ tx_products'[r].sku = d.sku
                 /\ last'.prod = r /\ last'.b = r
                 /\ DOMAIN tx_products' \subseteq DOMAIN tx_products
                 /\ cnt'.created = cnt.created
                 /\ cnt'.updated = cnt.updated + 1]_vars

\* A row committed by an earlier run with one variant id was found through
\* its SKU and now holds another variant id.
C8_Witness ==
    /\ pc = "running"
    /\ last.kind = "update" /\ last.via = "sku"
    /\ last.prod \in DOMAIN products
    /\ products[last.prod].sku = tx_products[last.prod].sku
    /\ products[last.prod].options.wix_variant_id
          # tx_products[last.prod].options.wix_variant_id

\* Two distinct variants with the same SKU were listed in the run.
SameSkuTwice ==
    /\ Len(catalog) = 2
    /\ DraftAt(1).valid /\ DraftAt(2).valid
    /\ DraftAt(1).sku = DraftAt(2).sku

\* C9 as claimed -- same SKU twice in one run: handling the second variant
\* takes the merge path against the Product produced for the first, and
\* exactly one Product has that SKU.
C9_SameSkuMerges ==
    (pc = "running" /\ idx = 3 /\ SameSkuTwice) =>
        /\ last.kind = "merge"
        /\ Cardinality(RowsWithSku(tx_products, DraftAt(2))) = 1

\* C9 as amended -- the second variant resolves to the Product produced for
\* the first and overwrites it; the merge path is taken exactly when the
\* second variant's identity had a row of its own; the run ends with exactly
\* one Product having that SKU.
C9_SameSkuOneProduct ==
    /\ [][(VariantStep /\ idx = 2 /\ SameSkuTwice) =>
            /\ last'.prod = last.prod
            /\ last'.kind \in {"update", "merge"}
            /\ (last'.kind = "merge") =
                  (RowsWithIdentity(tx_products, DraftAt(2)) # {})
            /\ Cardinality(RowsWithSku(tx_products', DraftAt(2))) = 1]_vars
    /\ []((pc = "idle" /\ prev = "committed" /\ SameSkuTwice) =>
            Cardinality(RowsWithSku(products, DraftAt(2))) = 1)

\* The second of two variants with the same SKU was handled without a merge.
C9_Witness ==
    /\ pc = "running" /\ idx = 3 /\ SameSkuTwice
    /\ last.kind = "update" /\ last.via = "sku"
    /\ Cardinality(DOMAIN tx_products) = 1

\* C10 -- non-negative inventory: the quantity the reconciler writes is
\* max(0, external quantity), and no InventoryItem has a negative quantity.
C10_NonNegativeInventory ==
    /\ \A i \in DOMAIN inventory : inventory[i].quantity >= 0
    /\ \A i \in DOMAIN tx_inventory : tx_inventory[i].quantity >= 0
    /\ (pc = "running" /\ last.wrote) =>
          LET q == catalog[idx - 1].inv.qty
          IN  tx_inventory[last.inv_row].quantity = (IF q < 0 THEN 0 ELSE q)

\* C10's witness: a negative external quantity was written over an existing
\* row.
C10_Witness ==
    /\ pc = "running" /\ last.wrote
    /\ catalog[idx - 1].inv.qty < 0
    /\ last.inv_row \in DOMAIN inventory
    /\ inventory[last.inv_row].quantity > 0
    /\ tx_inventory[last.inv_row].quantity = 0

\* The variant at position idx has no entry in the inventory map, or an
\* entry with tracking disabled.
UntrackedHere == ~catalog[idx].inv.listed \/ ~catalog[idx].inv.track

\* C11 -- untracked-variant stability: handling a variant whose inventory-map
\* entry has tracking disabled, or that has no entry, creates no
\* InventoryItem and changes the quantity of no existing InventoryItem.
C11_UntrackedStability ==
    [][(VariantStep /\ UntrackedHere) =>
         /\ DOMAIN tx_inventory' = DOMAIN tx_inventory
         /\ \A i \in DOMAIN tx_inventory :
               tx_inventory'[i].quantity = tx_inventory[i].quantity
         /\ ~last'.wrote
         /\ cnt'.inv_written = cnt.inv_written]_vars

\* A variant listed with tracking disabled and quantity -1 was handled, and
\* the product it resolved to keeps its ENTREPOT row with quantity 2.
C11_Witness ==
    /\ pc = "running" /\ idx > 1
    /\ last.kind \in {"update", "merge"}
    /\ catalog[idx - 1].inv.listed /\ ~catalog[idx - 1].inv.track
    /\ \E i \in DOMAIN tx_inventory :
          /\ tx_inventory[i].product_id = last.prod
          /\ tx_inventory[i].quantity = 2

\* C12 -- tracked quantity is authoritative: at the end of a run, for every
\* handled variant whose inventory-map entry has tracking enabled with
\* quantity q, every InventoryItem of (ENTREPOT, the product the variant
\* resolved to) has quantity max(0, q).
C12_TrackedAuthoritative ==
    AtEnd =>
      \A i \in DOMAIN catalog :
         (/\ resolved[i] # 0
          /\ catalog[i].inv.listed
          /\ catalog[i].inv.track) =>
            \A r \in DOMAIN tx_inventory :
               (/\ tx_inventory[r].salon_id \in EntrepotIds(salons)
                /\ tx_inventory[r].product_id = resolved[i]) =>
                  tx_inventory[r].quantity =
                     (IF catalog[i].inv.qty < 0 THEN 0 ELSE catalog[i].inv.qty)

\* The part of C12 about the variant that resolved last to its product.
C12_LastResolver ==
    AtEnd =>
      \A i \in DOMAIN catalog :
         (/\ resolved[i] # 0
          /\ catalog[i].inv.listed
          /\ catalog[i].inv.track
          /\ \A j \in DOMAIN catalog : j > i => resolved[j] # resolved[i]) =>
            \A r \in DOMAIN tx_inventory :
               (/\ tx_inventory[r].salon_id \in EntrepotIds(salons)
                /\ tx_inventory[r].product_id = resolved[i]) =>
                  tx_inventory[r].quantity =
                     (IF catalog[i].inv.qty < 0 THEN 0 ELSE catalog[i].inv.qty)

\* normalize_variant has returned for a parent and a variant that both
\* carry an id.
Normalized ==
    /\ norm_call.called
    /\ norm_call.parent.id \notin {None, ""}
    /\ norm_call.variant.id \notin {None, ""}

\* A SKU field that is missing, empty or blank.
EmptyField(x) == x \in {None, "", " "}

\* Every SKU source field of the variant is empty.
AllSkuFieldsEmpty ==
    /\ EmptyField(norm_call.variant.sku)
    /\ EmptyField(norm_call.variant.variant_sku)
    /\ EmptyField(norm_call.variant.stockKeepingUnit)
    /\ EmptyField(norm_call.variant.skuData_sku)
    /\ EmptyField(norm_call.variant.vendorSku)
    /\ EmptyField(norm_call.variant.itemNumber)

\* An id without the blanks around it.
TrimmedId(x) ==
    CASE x = " P1" -> "P1"
      [] x = "V1 " -> "V1"
      [] OTHER     -> x

SevenSources ==
    LET v == norm_call.variant
    IN  <<IF IsDict(v.sku) THEN None ELSE v.sku,
          v.variant_sku,
          IF IsDict(v.sku) THEN "Z" ELSE None,
          v.stockKeepingUnit,
          v.skuData_sku,
          v.vendorSku,
          v.itemNumber>>

\* A SKU without the blanks around it.
TrimmedSku(x) == IF x = " X" THEN "X" ELSE x

\* C14 -- SKU resolution order: the SKU of the draft is the first non-empty
\* of the seven sources, and the synthetic SKU only when all seven are empty.
C14_SkuResolutionOrder ==
    Normalized =>
      LET set == {i \in DOMAIN SevenSources : ~EmptyField(SevenSources[i])}
          first == CHOOSE i \in set : \A j \in set : i <= j
      IN  norm_call.draft.sku =
             IF set = {}
             THEN norm_call.draft.wix_id \o ":"
                    \o norm_call.draft.options.wix_variant_id
             ELSE TrimmedSku(SevenSources[first])

\* The part of C14 about the variants whose direct field is a string and
\* whose vendor SKU and item number are empty.
C14_FiveSources ==
    (/\ Normalized
     /\ ~IsDict(norm_call.variant.sku)
     /\ EmptyField(norm_call.variant.vendorSku)
     /\ EmptyField(norm_call.variant.itemNumber)) => C14_SkuResolutionOrder

\* Nothing is created, updated, deleted or written by the step, and the run
\* goes on.
NothingWritten ==
    /\ tx_products' = tx_products
    /\ tx_inventory' = tx_inventory
    /\ products' = products /\ inventory' = inventory
    /\ cnt'.created = cnt.created
    /\ cnt'.updated = cnt.updated
    /\ cnt'.inv_written = cnt.inv_written
    /\ merged' = merged
    /\ pc' = "running" /\ idx' = idx + 1

ClaimedSource ==
    IF norm_call.variant.price.k \in {"num", "str"}
       /\ norm_call.variant.price # PyStr("")
    THEN norm_call.variant.price
    ELSE norm_call.parent.price

\* C16 -- normalized price: the price of the draft is the variant's price
\* override when present and non-empty, else the parent's base price; it is
\* never negative, and a value that cannot be converted gives 0.
C16_NormalizedPrice ==
    Normalized =>
        /\ norm_call.draft.price >= 0
        /\ ClaimedSource.k = "num" /\ ClaimedSource.n >= 0 =>
              norm_call.draft.price = ClaimedSource.n
        /\ ClaimedSource = PyStr("7") => norm_call.draft.price = 7
        /\ ClaimedSource \in {PyStr("abc"), PyAbsent, PyNone} =>
              norm_call.draft.price = 0

\* The part of C16 about prices that are not negative, with a variant price
\* that is not an empty value.
C16_PositivePrices ==
    (/\ Normalized
     /\ norm_call.variant.price # PyStr("")
     /\ norm_call.variant.price.n >= 0) => C16_NormalizedPrice

\* C17 -- atomic run: a run that is aborted by an error leaves the Product
\* and InventoryItem tables as they were before it and its session empty of
\* changes; the tables change only in the commit after the last variant,
\* which makes them what the session holds.
C17_AtomicRun ==
    /\ [][(pc = "running" /\ pc' = "idle" /\ prev' = "failed") =>
            /\ products' = products /\ inventory' = inventory
            /\ tx_products' = products /\ tx_inventory' = inventory
            /\ pc' = "idle"]_vars
    /\ [][(products' # products \/ inventory' # inventory) =>
            /\ AtEnd
            /\ pc' = "idle" /\ prev' = "committed"
            /\ products' = tx_products /\ inventory' = tx_inventory]_vars
    /\ [](pc = "idle" => (tx_products = products /\ tx_inventory = inventory))

\* A run was aborted after it had created products (the key sequence has
\* advanced): the store holds none of them.
C17_Witness ==
    /\ pc = "idle" /\ prev = "failed"
    /\ products = EmptyTable /\ inventory = EmptyTable
    /\ nextProductId > 2
    /\ response.status_code = 500

\* The inventory listing of the run was fetched and holds no variant.
EmptyListing ==
    inv_meta = "meta" /\ \A i \in DOMAIN catalog : ~catalog[i].inv.listed

\* What the lookups on the session's products alone give for the variant at
\* position idx: a skip, a creation or an update.
OutcomeByProducts ==
    LET d == DraftAt(idx)
    IN  IF ~d.valid THEN "skip"
        ELSE IF RowsWithIdentity(tx_products, d) = {}
                /\ RowsWithSku(tx_products, d) = {}
        THEN "create" ELSE "update"

\* C18 -- inventory pre-fetch failure is not fatal: when building the
\* inventory map raised, the run handles every variant as a run whose
\* listing was fetched and is empty does: each variant is counted as
\* created, updated or skipped by the lookups on the products alone, no
\* inventory row is written, and the run goes on to its commit, whose
\* summary holds the error as inventory metadata.
C18_InventoryFetchFailure ==
    /\ [][(VariantStep /\ (inv_meta = "error" \/ EmptyListing)) =>
            /\ pc' = "running"
            /\ cnt'.created = cnt.created
                  + (IF OutcomeByProducts = "create" THEN 1 ELSE 0)
            /\ cnt'.updated = cnt.updated
                  + (IF OutcomeByProducts = "update" THEN 1 ELSE 0)
            /\ cnt'.skipped_no_sku = cnt.skipped_no_sku
                  + (IF OutcomeByProducts = "skip" THEN 1 ELSE 0)
            /\ cnt'.inv_written = 0
            /\ ~last'.wrote
            /\ DOMAIN tx_inventory' = DOMAIN tx_inventory
            /\ \A i \in DOMAIN tx_inventory :
                  tx_inventory'[i].quantity = tx_inventory[i].quantity]_vars
    /\ [][(AtEnd /\ inv_meta = "error" /\ prev' = "committed"
             /\ pc' = "idle") =>
            /\ response' = Summary("error")
            /\ cnt.variants_seen = Len(catalog)
            /\ cnt.inv_written = 0]_vars

\* A run whose inventory fetch failed was committed: it created products for
\* variants the platform tracks, wrote no inventory row and returned the
\* error in its summary.
C18_Witness ==
    /\ pc = "idle" /\ prev = "committed"
    /\ response.kind = "summary" /\ response.inventory_meta = "error"
    /\ Len(catalog) = 2
    /\ catalog[1].inv.track /\ catalog[2].inv.track
    /\ Cardinality(DOMAIN products) = 2
    /\ inventory = EmptyTable

\* The parents fetch of a request raises.
ParentsFetchFails ==
    pc = "idle" /\ response' = HTTPException("Wix fetch parents failed")

\* C19 -- parent fetch failure is fatal: when fetching the parents fails the
\* request ends at once: no variant is fetched or counted, and no Product
\* and no InventoryItem is created, updated or deleted, in the store or in
\* the session.
C19_ParentFetchFatal ==
    [][ParentsFetchFails =>
         /\ pc' = "idle"
         /\ idx' = idx /\ cnt' = cnt /\ resolved' = resolved
         /\ products' = products /\ inventory' = inventory
         /\ tx_products' = products /\ tx_inventory' = inventory
         /\ nextProductId' = nextProductId
         /\ response'.status_code = 500]_vars

\* A request whose parents fetch failed, over a store that holds products
\* and inventory rows.
C19_Witness ==
    /\ pc = "idle" /\ prev = "parents_failed"
    /\ response = HTTPException("Wix fetch parents failed")
    /\ products # EmptyTable /\ inventory # EmptyTable
    /\ cnt.variants_seen = 0

\* The last request failed.
RequestFailed == pc = "idle" /\ prev \in {"failed", "parents_failed"}

\* C20 -- structured result on failure: for every failure of a run the
\* caller receives a summary with ok = false and the error text, and never
\* an exception.
C20_StructuredFailure ==
    RequestFailed =>
        /\ response.kind = "summary"
        /\ response.ok = "False"
        /\ response.detail # "missing"

\* ------------------------------------------------------------------------
\* Paginated fetches
\* ------------------------------------------------------------------------
\* A fetch has stopped once the platform signalled no further page, or once
\* it has read max_pages pages (a number), and it has sent at most max_pages
\* page requests, or `least` when that is more.
StopsInTime(least) ==
    /\ fetch.signalled => fetch.st # "loop"
    /\ (fetch.bounded /\ fetch.requests > 0
           /\ fetch.pages >= fetch.max_pages) => fetch.st # "loop"
    /\ fetch.bounded => fetch.requests <= Max(fetch.max_pages, least)

\* C21: each paginated fetch stops as soon as the platform signals no further
\* page or max_pages pages were fetched; a fetch called with max_pages = n
\* ends after at most n page requests, even if the platform signals a next
\* page every time.
C21_BoundedPagination == StopsInTime(0)

\* C21, amended: as C21, but query_products_v1 sends its first page request
\* before it looks at max_pages: it ends after at most max(n, 1) requests,
\* _build_inventory_map_v1 after at most n.
C21_BoundedAfterFirstPage ==
    StopsInTime(IF fetch.fn = "query_products_v1" THEN 1 ELSE 0)

\* Both fetches were cut by max_pages = 3 on a platform that signals a next
\* page every time.
C21_Witness ==
    /\ fetch.endless /\ fetch.bounded /\ fetch.max_pages = 3
    /\ fetch.st = "returned" /\ fetch.requests = 3 /\ ~fetch.signalled
    /\ fetch.fn = "query_products_v1"

\* The handler's fetch of the parents has returned.
ParentsFetched ==
    /\ fetch.fn = "query_products_v1"
    /\ fetch.caller = "sync"
    /\ fetch.st = "returned"

\* C22: for every requested limit L >= 1 (L <= 100 and L > 100) and every
\* catalog size, the number of parents one run fetches, and so processes,
\* never exceeds L.
C22_ParentsBoundedByLimit ==
    (ParentsFetched /\ fetch.limit >= 1) => fetch.result <= fetch.limit

\* C23: a non-success response on any page of a paginated fetch aborts the
\* whole call with an error and yields no partial result; a failure on a
\* later page of the inventory fetch leaves the run with an empty inventory
\* map, never with the entries of the pages already read.
C23_AllOrNothingFetch ==
    (fetch.requests > 0 /\ fetch.status # 200) =>
        /\ fetch.st = "raised"
        /\ fetch.result = 0

\* The handler's inventory fetch failed on a later page, after entries of
\* earlier pages had been put into the map being built.
C23_Witness ==
    /\ fetch.fn = "_build_inventory_map_v1"
    /\ fetch.caller = "sync"
    /\ fetch.st = "raised"
    /\ fetch.pages >= 1
    /\ fetch.inv_map > 0
    /\ fetch.result = 0

\* ------------------------------------------------------------------------
\* Overlapping requests
\* ------------------------------------------------------------------------
\* A request is between its first store read and its commit or rollback.
InRun(p) == p = "running"

\* C24: two sync runs never execute concurrently: while one run is between
\* its first store read and its commit or rollback, no other run reads or
\* writes Product or InventoryItem rows, and no interleaving of two runs
\* yields two Products with the same SKU.
C24_NoOverlappingRuns ==
    /\ ~(InRun(pc) /\ InRun(parked.pc))
    /\ SkuUnique(products)

\* C24, its last part alone: the committed products have distinct SKUs.
C24_NoDuplicateSku == SkuUnique(products)

\* C30: in every reachable state at most one Salon row has code ENTREPOT:
\* get_or_create_entrepot creates it on the first call and returns the same
\* row on every later call, also when two sync runs call it concurrently,
\* and the row stays committed even if the run that created it rolls back.
C30_SingleWarehouse ==
    /\ Cardinality(EntrepotIds(salons)) <= 1
    /\ InRun(pc) => db_session.entrepot \in EntrepotIds(salons)
    /\ prev # "none" => EntrepotIds(salons) # {}

\* C30 for requests served one after the other: at most one ENTREPOT row,
\* which is there once a request has ended, in whatever way.
C30_SingleWarehouseInSequence ==
    /\ Cardinality(EntrepotIds(salons)) <= 1
    /\ prev # "none" => EntrepotIds(salons) # {}

\* ------------------------------------------------------------------------
\* The audit table
\* ------------------------------------------------------------------------
\* The SyncRun rows in a given status.
RunsIn(status) == {i \in DOMAIN sync_runs : sync_runs[i].status = status}

\* C25: every sync run creates exactly one SyncRun row with status running
\* at its start, and that row is finalized (status success or error) whether
\* the run ends normally or by an error; no SyncRun stays in status running
\* after its run has returned.
C25_AuditRowLifecycle ==
    /\ pc = "running" => Cardinality(RunsIn("running")) = 1
    /\ pc = "idle" => RunsIn("running") = {}
    /\ (pc = "idle" /\ prev = "committed") => RunsIn("success") # {}
    /\ (pc = "idle" /\ prev \in {"failed", "parents_failed"}) =>
          RunsIn("error") # {}

\* ------------------------------------------------------------------------
\* Deletion of products
\* ------------------------------------------------------------------------
\* C26: a sync run deletes a Product row only in the drift case (the matched
\* row and the owner of the SKU both exist and differ), and then deletes
\* exactly the matched, superseded row; variants that left the catalog,
\* skipped variants and plain updates never delete a Product.
C26_DeletionOnlyByMerge ==
    [][/\ (pc = "running" /\ pc' = "running") =>
            LET gone == DOMAIN tx_products \ DOMAIN tx_products'
            IN  gone # {} =>
                  /\ VariantStep
                  /\ LET d      == DraftAt(idx)
                         owners == RowsWithSku(tx_products, d)
                         cand   == IF RowsWithIdentity(tx_products, d) # {}
                                   THEN RowsWithIdentity(tx_products, d)
                                   ELSE owners
                     IN  \E a \in cand, b \in owners :
                            a # b /\ gone = {a}
       /\ DOMAIN products \ DOMAIN products' # {} =>
            /\ AtEnd
            /\ products' = tx_products
            /\ Cardinality(DOMAIN products \ DOMAIN products') <= merged
      ]_vars

\* A merge has deleted the matched row from the session of a run.
C26_Witness ==
    /\ pc = "running"
    /\ last.kind = "merge"
    /\ last.a \notin DOMAIN tx_products
    /\ last.b \in DOMAIN tx_products

\* ------------------------------------------------------------------------
\* Movements
\* ------------------------------------------------------------------------
\* The quantity held for (salon_id, product_id): that of its row, 0 without.
QuantityAt(inv, salon_id, product_id) ==
    IF InvAt(inv, salon_id, product_id) = {} THEN 0
    ELSE inv[CHOOSE i \in InvAt(inv, salon_id, product_id) : TRUE].quantity

\* C27: for any sequence of record_movement calls the quantity of every
\* InventoryItem is >= 0; IN adds qty, OUT and SALE subtract qty clamped at
\* 0, ADJUST sets the quantity to qty; a missing row is created with quantity
\* 0 before the movement is applied, and there is never more than one row per
\* (salon_id, product_id).
C27_MovementArithmetic ==
    /\ [](/\ \A i \in DOMAIN inventory : inventory[i].quantity >= 0
          /\ \A i, j \in DOMAIN inventory :
                (/\ inventory[i].salon_id = inventory[j].salon_id
                 /\ inventory[i].product_id = inventory[j].product_id)
                    => i = j)
    /\ [][LET m      == movement'
              before == QuantityAt(inventory, m.salon_id, m.product_id)
              after  == QuantityAt(inventory', m.salon_id, m.product_id)
              rows   == InvAt(inventory, m.salon_id, m.product_id)
          IN  /\ InvAt(inventory', m.salon_id, m.product_id)
                    = IF rows = {} THEN {m.inventory_id} ELSE rows
              /\ m.inventory_id \in DOMAIN inventory <=> rows # {}
              /\ m.type = "IN" => after = before + m.qty
              /\ m.type \in {"OUT", "SALE"} =>
                    after = IF before > m.qty THEN before - m.qty ELSE 0
              /\ m.type = "ADJUST" => after = m.qty
              /\ m.quantity = after
              /\ \A i \in DOMAIN inventory \ rows :
                    i \in DOMAIN inventory' /\ inventory'[i] = inventory[i]
       ]_vars

\* An OUT or SALE larger than the quantity held was recorded on a row that
\* an earlier movement had created, and a second pair has its own row.
C27_Witness ==
    /\ movement.type \in {"OUT", "SALE"}
    /\ movement.qty = 2
    /\ movement.quantity = 0
    /\ Cardinality(DOMAIN inventory) >= 2
    /\ \E i \in DOMAIN inventory : inventory[i].quantity = MaxQty

\* ------------------------------------------------------------------------
\* Counters
\* ------------------------------------------------------------------------
\* C28: on every run that returns successfully, each variant seen is counted
\* exactly once as created, updated or skipped, so variants_seen = created +
\* updated + skipped_no_sku, and inventory_written_entrepot <= created +
\* updated.
C28_CounterAccounting ==
    /\ [](pc = "running" =>
            /\ cnt.variants_seen
                  = cnt.created + cnt.updated + cnt.skipped_no_sku
            /\ cnt.inv_written <= cnt.created + cnt.updated)
    /\ [][(VariantStep /\ cnt'.variants_seen # cnt.variants_seen) =>
            /\ cnt'.variants_seen = cnt.variants_seen + 1
            /\ \E k \in {"created", "updated", "skipped_no_sku"} :
                  /\ cnt'[k] = cnt[k] + 1
                  /\ \A o \in {"created", "updated", "skipped_no_sku"} \ {k} :
                        cnt'[o] = cnt[o]]_vars

\* A run about to return with a skipped variant, an updated one and an
\* inventory row written.
C28_Witness ==
    /\ AtEnd
    /\ cnt.variants_seen = 2
    /\ cnt.skipped_no_sku = 1
    /\ cnt.updated = 1
    /\ cnt.inv_written = 1

\* ------------------------------------------------------------------------
\* The options bag
\* ------------------------------------------------------------------------
\* C29: when a sync run updates an existing Product, the keys of its options
\* bag that the sync does not produce (seo_parent and seo_variant stored by
\* seo_apply, categories) are left unchanged; only wix_variant_id, choices
\* and vendor_sku are rewritten.
C29_OptionsPreserved ==
    [][VariantStep =>
        \A i \in DOMAIN tx_products \cap DOMAIN tx_products' :
           \A k \in DOMAIN tx_products[i].options \ SyncKeys :
              /\ k \in DOMAIN tx_products'[i].options
              /\ tx_products'[i].options[k] = tx_products[i].options[k]]_vars

====
